---------------------------- MODULE Spec2Model ----------------------------
(***************************************************************************)
(* Voltas A/C protocol: the 10-byte state codec of class IRVoltas          *)
(* (src/src/ir_Voltas.h, src/src/ir_Voltas.cpp) and IRrecv::decodeVoltas.  *)
(*                                                                         *)
(* A state buffer is a function from 0..length-1 to bytes (0..255), as the *)
(* C arrays it models are indexed.  Every uint8_t computation is reduced   *)
(* modulo 256 and every bit-field store is truncated to the field's width. *)
(***************************************************************************)
EXTENDS Integers, FiniteSets

VARIABLES raw, last, ret, prior, calls, gets, fresh, results

vars == <<raw, last, ret, prior, calls, gets, fresh, results>>

(***************************************************************************)
(* Constants of the protocol.  The two source files use them without       *)
(* setting them: their declarations lie outside these files.  The state    *)
(* length and the bit count are the protocol's 10 bytes and 80 bits; the   *)
(* mode, fan and temperature values are the library's.                     *)
(***************************************************************************)
kVoltasStateLength == 10
kVoltasBits == 80
kVoltasFan == 1
kVoltasHeat == 2
kVoltasDry == 4
kVoltasCool == 8
kVoltasMinTemp == 16
kVoltasMaxTemp == 30
kVoltasFanHigh == 1
kVoltasFanMed == 2
kVoltasFanLow == 4
kVoltasFanAuto == 7

Byte == 0..255

(***************************************************************************)
(* Bounds of the model.                                                    *)
(***************************************************************************)
\* Calls made on one IRVoltas object after its construction.
MaxCalls == 4
\* Calls made where a setter's argument ranges over every uint8_t value.
MaxRangeCalls == 2
\* decodeVoltas calls made on one decode_results.
MaxDecodes == 2
\* Longest buffer handed to calcChecksum and validChecksum on their own.
MaxLen == 3
\* decode_results.state is modelled by its first MaxStateBytes bytes.
MaxStateBytes == 11

(***************************************************************************)
(* union VoltasProtocol: each bit-field as <<byte, lowest bit, width>>.    *)
(* The unnamed fields are named Pad<byte><n>.                              *)
(***************************************************************************)
Layout ==
  [ SwingH         |-> <<0, 0, 1>>,
    Unknown0       |-> <<0, 1, 7>>,
    Mode           |-> <<1, 0, 4>>,
    Pad1           |-> <<1, 4, 1>>,
    FanSpeed       |-> <<1, 5, 3>>,
    SwingV         |-> <<2, 0, 3>>,
    Wifi           |-> <<2, 3, 1>>,
    Pad2           |-> <<2, 4, 1>>,
    Turbo          |-> <<2, 5, 1>>,
    Sleep          |-> <<2, 6, 1>>,
    Power          |-> <<2, 7, 1>>,
    Temp           |-> <<3, 0, 4>>,
    Unknown3       |-> <<3, 4, 2>>,
    Econo          |-> <<3, 6, 1>>,
    TempSet        |-> <<3, 7, 1>>,
    OffTimer24h4   |-> <<4, 0, 1>>,
    Pad4           |-> <<4, 1, 7>>,
    OffTimer24h5   |-> <<5, 0, 1>>,
    Pad5           |-> <<5, 1, 6>>,
    TimerAdd12Hr   |-> <<5, 7, 1>>,
    Pad6           |-> <<6, 0, 8>>,
    Pad7           |-> <<7, 0, 4>>,
    TimerHrs       |-> <<7, 4, 4>>,
    Pad8a          |-> <<8, 0, 5>>,
    Light          |-> <<8, 5, 1>>,
    OffTimerEnable |-> <<8, 6, 1>>,
    Pad8b          |-> <<8, 7, 1>>,
    Checksum       |-> <<9, 0, 8>> ]

Fields == DOMAIN Layout

\* Reading bit-field f of state s.
GetField(s, f) ==
  (s[Layout[f][1]] \div (2 ^ Layout[f][2])) % (2 ^ Layout[f][3])

\* A store that shifts the value into place without masking the old byte.
PutField_NoMask(s, f, v) ==
  [s EXCEPT ![Layout[f][1]] = (v % (2 ^ Layout[f][3])) * (2 ^ Layout[f][2])]

\* Storing v into bit-field f: v is truncated to the field's width and the
\* other bits of the byte keep their value.
PutField(s, f, v) ==
  [s EXCEPT ![Layout[f][1]] =
      @ - GetField(s, f) * (2 ^ Layout[f][2])
        + (v % (2 ^ Layout[f][3])) * (2 ^ Layout[f][2])]

\* A C++ bool converted to the integer a bit-field stores.
BoolBit(on) == IF on THEN 1 ELSE 0

(***************************************************************************)
(* Checksum.                                                               *)
(***************************************************************************)
RECURSIVE sumBytes(_, _)
\* irutils::sumBytes: the 8-bit sum of the first length bytes.
sumBytes(state, length) ==
  IF length <= 0 THEN 0
  ELSE (sumBytes(state, length - 1) + state[length - 1]) % 256

\* The sum taken over all length bytes, the checksum position included.
calcChecksum_SumsAll(state, length) ==
  LET result == IF length # 0 THEN sumBytes(state, length) ELSE 0
  IN  255 - result

calcChecksum(state, length) ==
  LET result == IF length # 0 THEN sumBytes(state, length - 1) ELSE 0
  IN  255 - result

validChecksum(state, length) ==
  IF length # 0 THEN state[length - 1] = calcChecksum(state, length)
  ELSE TRUE

\* The checksum taken over the whole buffer, its own byte included.
checksum_IncludesItself(s) ==
  PutField(s, "Checksum", calcChecksum(s, kVoltasStateLength + 1))

checksum(s) ==
  PutField(s, "Checksum", calcChecksum(s, kVoltasStateLength - 1))

(***************************************************************************)
(* The codec's operations, as functions of the state buffer.               *)
(***************************************************************************)
stateReset == [i \in 0..(kVoltasStateLength - 1) |-> 0]

setRaw(new_code) == [i \in 0..(kVoltasStateLength - 1) |-> new_code[i]]

getRaw(s) == checksum(s)

setPower(s, on) == PutField(s, "Power", BoolBit(on))

getPower(s) == GetField(s, "Power") # 0

\* An unexpected mode stored as it is.
setMode_StoresRaw(s, mode) == PutField(s, "Mode", mode)

RECURSIVE setMode(_, _)
setMode(s, mode) ==
  IF mode \in {kVoltasFan, kVoltasHeat, kVoltasDry, kVoltasCool}
  THEN PutField(s, "Mode", mode)
  ELSE setMode(s, kVoltasCool)

getMode(s) == GetField(s, "Mode")

Max(a, b) == IF a < b THEN b ELSE a

Min(a, b) == IF b < a THEN b ELSE a

\* The upper clamp alone.
setTemp_NoLowerClamp(s, temp) ==
  LET new_temp == Min(kVoltasMaxTemp, temp)
  IN  PutField(s, "Temp", (new_temp - kVoltasMinTemp) % 256)

setTemp(s, temp) ==
  LET new_temp == Min(kVoltasMaxTemp, Max(kVoltasMinTemp, temp))
  IN  PutField(s, "Temp", (new_temp - kVoltasMinTemp) % 256)

getTemp(s) == (GetField(s, "Temp") + kVoltasMinTemp) % 256

RECURSIVE setFan(_, _)
setFan(s, fan) ==
  IF fan \in {kVoltasFanLow, kVoltasFanMed, kVoltasFanHigh, kVoltasFanAuto}
  THEN PutField(s, "FanSpeed", fan)
  ELSE setFan(s, kVoltasFanAuto)

getFan(s) == GetField(s, "FanSpeed")

setWifi(s, on) == PutField(s, "Wifi", BoolBit(on))

getWifi(s) == GetField(s, "Wifi") # 0

setTurbo(s, on) == PutField(s, "Turbo", BoolBit(on))

getTurbo(s) == GetField(s, "Turbo") # 0

setEcono(s, on) == PutField(s, "Econo", BoolBit(on))

getEcono(s) == GetField(s, "Econo") # 0

setLight(s, on) == PutField(s, "Light", BoolBit(on))

getLight(s) == GetField(s, "Light") # 0


(***************************************************************************)
(* Fan speed conversions.  stdAc::fanspeed_t is an enum class; its values  *)
(* are modelled by their names, and "other" stands for any value outside   *)
(* the six named ones.                                                     *)
(***************************************************************************)
FanSpeedT == {"kAuto", "kMin", "kLow", "kMedium", "kHigh", "kMax", "other"}

convertFan(speed) ==
  CASE speed \in {"kMin", "kLow"}  -> kVoltasFanLow
    [] speed = "kMedium"           -> kVoltasFanMed
    [] speed \in {"kHigh", "kMax"} -> kVoltasFanHigh
    [] OTHER                       -> kVoltasFanAuto

\* The inverse of convertFan's table on its native values.
toCommonFanSpeed_Inverse(spd) ==
  CASE spd = kVoltasFanHigh -> "kHigh"
    [] spd = kVoltasFanMed  -> "kMedium"
    [] spd = kVoltasFanLow  -> "kLow"
    [] OTHER                -> "kAuto"

toCommonFanSpeed(spd) ==
  CASE spd = kVoltasFanHigh -> "kMax"
    [] spd = kVoltasFanMed  -> "kMedium"
    [] spd = kVoltasFanLow  -> "kMin"
    [] OTHER                -> "kAuto"

(***************************************************************************)
(* toCommon().  The local `result` is declared without an initialiser and  *)
(* mode, swingv, clean and sleep are never assigned (their assignments are *)
(* commented out), so the returned value of these four fields is whatever  *)
(* the storage of `result` held: uninit, one of IndeterminateT.            *)
(***************************************************************************)
IndeterminateT ==
  { [mode |-> "kOff",  swingv |-> "kOff",     clean |-> FALSE, sleep |-> -1],
    [mode |-> "kHeat", swingv |-> "kHighest", clean |-> TRUE,  sleep |-> 0] }

toCommon(s, uninit) ==
  [ protocol |-> "VOLTAS",
    power    |-> getPower(s),
    mode     |-> uninit.mode,
    celsius  |-> TRUE,
    degrees  |-> getTemp(s),
    fanspeed |-> toCommonFanSpeed(GetField(s, "FanSpeed")),
    swingv   |-> uninit.swingv,
    turbo    |-> getTurbo(s),
    econo    |-> getEcono(s),
    light    |-> getLight(s),
    clean    |-> uninit.clean,
    sleep    |-> uninit.sleep,
    model    |-> -1,
    swingh   |-> "kOff",
    quiet    |-> FALSE,
    filter   |-> FALSE,
    beep     |-> FALSE,
    clock    |-> -1 ]

(***************************************************************************)
(* Inputs of the codec's state machine.                                    *)
(***************************************************************************)
\* The example message of the sendVoltas documentation.
Fixture ==
  [i \in 0..9 |->
     CASE i = 0 -> 51 [] i = 1 -> 40 [] i = 2 -> 136 [] i = 3 -> 26
       [] i = 4 -> 59 [] i = 5 -> 59 [] i = 6 -> 59  [] i = 7 -> 17
       [] i = 8 -> 0  [] i = 9 -> 64]

\* Buffers handed to setRaw: the example, every bit set, and two
\* complementary bit patterns with a non-zero last data byte.
RawInputs ==
  { Fixture,
    [i \in 0..9 |-> 255],
    [i \in 0..9 |-> IF i % 2 = 0 THEN 165 ELSE 90],
    [i \in 0..9 |-> IF i % 2 = 0 THEN 90 ELSE 165] }

ModeInputs == {kVoltasFan, kVoltasHeat, kVoltasDry, kVoltasCool, 0, 255}

FanInputs ==
  {kVoltasFanLow, kVoltasFanMed, kVoltasFanHigh, kVoltasFanAuto, 0, 255}

TempInputs == {0, kVoltasMinTemp, kVoltasMinTemp + 7, kVoltasMaxTemp, 255}

\* decode_results before any decode.
NoResults ==
  [ state       |-> [i \in 0..(MaxStateBytes - 1) |-> 0],
    decode_type |-> "UNKNOWN",
    bits        |-> 0 ]

(***************************************************************************)
(* The codec as a state machine: raw is _.raw, last the last call and its  *)
(* argument, ret what it returned, prior what the call before it returned  *)
(* when both were toCommon(), calls the number of calls made, gets the     *)
(* number of getRaw()/send() calls since the state was last mutated, fresh *)
(* whether the state has not been mutated since the last stateReset(),     *)
(* results the decode_results handed to decodeVoltas.                      *)
(***************************************************************************)
NoPrior == [op |-> "none"]

Init ==
  /\ raw = stateReset
  /\ last = [op |-> "stateReset", arg |-> "IRVoltas"]
  /\ ret = "void"
  /\ prior = NoPrior
  /\ calls = 0
  /\ gets = 0
  /\ fresh = TRUE
  /\ results = NoResults

\* A call that mutates the state to s and returns nothing.
Mutate(op, arg, s) ==
  /\ calls' = calls + 1
  /\ raw' = s
  /\ last' = [op |-> op, arg |-> arg]
  /\ ret' = "void"
  /\ prior' = NoPrior
  /\ gets' = 0
  /\ fresh' = (op = "stateReset")
  /\ UNCHANGED results

StateReset ==
  /\ calls < MaxCalls
  /\ Mutate("stateReset", "void", stateReset)

SetRaw ==
  \E new_code \in RawInputs :
    /\ calls < MaxCalls
    /\ Mutate("setRaw", new_code, setRaw(new_code))

SetPower ==
  \E on \in BOOLEAN :
    /\ calls < MaxCalls
    /\ Mutate("setPower", on, setPower(raw, on))

SetMode ==
  \E mode \in ModeInputs :
    /\ calls < MaxCalls
    /\ Mutate("setMode", mode, setMode(raw, mode))

SetTemp ==
  \E temp \in TempInputs :
    /\ calls < MaxCalls
    /\ Mutate("setTemp", temp, setTemp(raw, temp))

SetFan ==
  \E fan \in FanInputs :
    /\ calls < MaxCalls
    /\ Mutate("setFan", fan, setFan(raw, fan))

SetWifi ==
  \E on \in BOOLEAN :
    /\ calls < MaxCalls
    /\ Mutate("setWifi", on, setWifi(raw, on))

SetTurbo ==
  \E on \in BOOLEAN :
    /\ calls < MaxCalls
    /\ Mutate("setTurbo", on, setTurbo(raw, on))

SetEcono ==
  \E on \in BOOLEAN :
    /\ calls < MaxCalls
    /\ Mutate("setEcono", on, setEcono(raw, on))

SetLight ==
  \E on \in BOOLEAN :
    /\ calls < MaxCalls
    /\ Mutate("setLight", on, setLight(raw, on))

\* getRaw(): checksum(), then a pointer to _.raw is returned.
GetRaw ==
  /\ calls < MaxCalls
  /\ calls' = calls + 1
  /\ raw' = getRaw(raw)
  /\ last' = [op |-> "getRaw", arg |-> "void"]
  /\ ret' = raw'
  /\ prior' = NoPrior
  /\ gets' = gets + 1
  /\ UNCHANGED <<fresh, results>>

\* send(repeat): the buffer getRaw() returns is handed to sendVoltas.
Send ==
  /\ calls < MaxCalls
  /\ calls' = calls + 1
  /\ raw' = getRaw(raw)
  /\ last' = [op |-> "send", arg |-> 0]
  /\ ret' = raw'
  /\ prior' = NoPrior
  /\ gets' = gets + 1
  /\ UNCHANGED <<fresh, results>>

ToCommon ==
  \E uninit \in IndeterminateT :
    /\ calls < MaxCalls
    /\ calls' = calls + 1
    /\ last' = [op |-> "toCommon", arg |-> "void"]
    /\ ret' = toCommon(raw, uninit)
    /\ prior' = IF last.op = "toCommon"
                THEN [op |-> "toCommon", ret |-> ret]
                ELSE NoPrior
    /\ UNCHANGED <<raw, gets, fresh, results>>

Next ==
  \/ StateReset
  \/ SetRaw
  \/ SetPower
  \/ SetMode
  \/ SetTemp
  \/ SetFan
  \/ SetWifi
  \/ SetTurbo
  \/ SetEcono
  \/ SetLight
  \/ GetRaw
  \/ Send
  \/ ToCommon

Spec == Init /\ [][Next]_vars


(***************************************************************************)
(* The setters with an argument ranging over every uint8_t value.          *)
(***************************************************************************)
SetTempAny ==
  \E temp \in Byte :
    /\ calls < MaxRangeCalls
    /\ Mutate("setTemp", temp, setTemp(raw, temp))

SetModeAny ==
  \E mode \in Byte :
    /\ calls < MaxRangeCalls
    /\ Mutate("setMode", mode, setMode(raw, mode))

SetFanAny ==
  \E fan \in Byte :
    /\ calls < MaxRangeCalls
    /\ Mutate("setFan", fan, setFan(raw, fan))

NextTemp ==
  \/ StateReset
  \/ SetRaw
  \/ SetTempAny

SpecTemp == Init /\ [][NextTemp]_vars

NextEnum ==
  \/ StateReset
  \/ SetRaw
  \/ SetModeAny
  \/ SetFanAny

SpecEnum == Init /\ [][NextEnum]_vars

(***************************************************************************)
(* IRrecv::decodeVoltas.  The captured pulse train is given by what it     *)
(* encodes: capture.n well-formed data bytes capture.data[0..n-1],         *)
(* followed by the footer mark and the message gap.  last.results is the   *)
(* decode_results handed to the call, results the one it leaves.           *)
(***************************************************************************)
\* IRrecv::matchGeneric on a byte buffer: it stores each byte as it is
\* matched, and matches when the nbits data bits (a whole number of bytes)
\* and then the footer are found.  [ok, state]: whether it matched and the
\* buffer it leaves.
matchGeneric(state, capture, nbits) ==
  LET nbytes == nbits \div 8
      stored == IF nbits % 8 # 0 THEN 0 ELSE Min(nbytes, capture.n)
  IN  [ ok    |-> nbits % 8 = 0 /\ capture.n = nbytes,
        state |-> [i \in DOMAIN state |->
                     IF i < stored THEN capture.data[i] ELSE state[i]] ]

\* The compliance check left out.
decodeVoltas_NoChecksum(res, capture, nbits, strict) ==
  IF strict /\ nbits # kVoltasBits
  THEN [ret |-> FALSE, results |-> res]
  ELSE LET m   == matchGeneric(res.state, capture, nbits)
           got == [res EXCEPT !.state = m.state]
       IN  IF ~m.ok
           THEN [ret |-> FALSE, results |-> got]
           ELSE [ret |-> TRUE,
                 results |-> [got EXCEPT !.decode_type = "VOLTAS",
                                         !.bits = nbits]]

\* decode_type and bits set before the compliance check.
decodeVoltas_SetsTypeEarly(res, capture, nbits, strict) ==
  IF strict /\ nbits # kVoltasBits
  THEN [ret |-> FALSE, results |-> res]
  ELSE LET m   == matchGeneric(res.state, capture, nbits)
           got == [res EXCEPT !.state = m.state]
           set == [got EXCEPT !.decode_type = "VOLTAS", !.bits = nbits]
       IN  IF ~m.ok
           THEN [ret |-> FALSE, results |-> got]
           ELSE IF strict /\ ~validChecksum(got.state, nbits \div 8)
           THEN [ret |-> FALSE, results |-> set]
           ELSE [ret |-> TRUE, results |-> set]

\* [ret, results]: the value returned and the decode_results left.
decodeVoltas(res, capture, nbits, strict) ==
  IF strict /\ nbits # kVoltasBits
  THEN [ret |-> FALSE, results |-> res]
  ELSE LET m   == matchGeneric(res.state, capture, nbits)
           got == [res EXCEPT !.state = m.state]
       IN  IF ~m.ok
           THEN [ret |-> FALSE, results |-> got]
           ELSE IF strict /\ ~validChecksum(got.state, nbits \div 8)
           THEN [ret |-> FALSE, results |-> got]
           ELSE [ret |-> TRUE,
                 results |-> [got EXCEPT !.decode_type = "VOLTAS",
                                         !.bits = nbits]]

\* A 10-byte message followed by one more byte.
Extend(msg, b) ==
  [i \in 0..kVoltasStateLength |->
     IF i < kVoltasStateLength THEN msg[i] ELSE b]

\* Messages a capture encodes: the example (valid checksum), the example
\* with another checksum byte, every bit set, and nine zero bytes with 0xFF.
Payloads ==
  { Extend(Fixture, 85),
    Extend([Fixture EXCEPT ![9] = 65], 85),
    Extend([i \in 0..9 |-> 255], 255),
    Extend([i \in 0..9 |-> IF i = 9 THEN 255 ELSE 0], 1) }

CaptureInputs == [data : Payloads, n : {0, 9, 10, 11}]

NbitsInputs == {0, 72, 80, 84, 88}

DecodeVoltas ==
  \E capture \in CaptureInputs, nbits \in NbitsInputs, strict \in BOOLEAN :
    LET d == decodeVoltas(results, capture, nbits, strict)
    IN  /\ calls < MaxDecodes
        /\ calls' = calls + 1
        /\ last' = [op |-> "decodeVoltas", results |-> results,
                    capture |-> capture, nbits |-> nbits, strict |-> strict]
        /\ ret' = d.ret
        /\ results' = d.results
        /\ UNCHANGED <<raw, prior, gets, fresh>>

NextDecode == DecodeVoltas

SpecDecode == Init /\ [][NextDecode]_vars

(***************************************************************************)
(* The static functions on their own: one call, on a buffer of any length  *)
(* up to MaxLen or on the example message, or on a fan speed.              *)
(***************************************************************************)
PureBytes == {0, 1, 127, 128, 255}

Buffers ==
  {Fixture} \cup UNION {[0..(len - 1) -> PureBytes] : len \in 0..MaxLen}

\* The number of bytes of buffer b.
Len(b) == Cardinality(DOMAIN b)

\* One call of a static function: nothing of the object is read or written.
Returned(op, arg, value) ==
  /\ calls' = calls + 1
  /\ last' = [op |-> op, arg |-> arg]
  /\ ret' = value
  /\ UNCHANGED <<raw, prior, gets, fresh, results>>

CalcChecksum ==
  \E state \in Buffers : \E length \in 0..Len(state) :
    /\ calls = 0
    /\ Returned("calcChecksum", [state |-> state, length |-> length],
                calcChecksum(state, length))

ValidChecksum ==
  \E state \in Buffers : \E length \in 0..Len(state) :
    /\ calls = 0
    /\ Returned("validChecksum", [state |-> state, length |-> length],
                validChecksum(state, length))

ConvertFan ==
  \E speed \in FanSpeedT :
    /\ calls = 0
    /\ Returned("convertFan", speed, convertFan(speed))

ToCommonFanSpeed ==
  \E spd \in Byte :
    /\ calls = 0
    /\ Returned("toCommonFanSpeed", spd, toCommonFanSpeed(spd))

NextPure ==
  \/ CalcChecksum
  \/ ValidChecksum
  \/ ConvertFan
  \/ ToCommonFanSpeed

SpecPure == Init /\ [][NextPure]_vars


(***************************************************************************)
(* Properties.                                                             *)
(***************************************************************************)
RECURSIVE ByteSum(_, _)
\* The sum, modulo 256, of the bytes b[0], ..., b[hi]; 0 when hi < 0.
ByteSum(b, hi) == IF hi < 0 THEN 0 ELSE (b[hi] + ByteSum(b, hi - 1)) % 256

\* The bitwise complement of a byte.
Complement(x) == 255 - x

GetOps == {"getRaw", "send"}

\* C1: the buffer getRaw() returns, which is the one send() hands to
\* sendVoltas, has byte 9 equal to the complement of the 8-bit sum of its
\* bytes 0 through 8, so that validChecksum(getRaw(), 10) is true.
C1_GetRawChecksumValid ==
  last.op \in GetOps =>
    /\ ret[9] = Complement(ByteSum(ret, 8))
    /\ validChecksum(ret, kVoltasStateLength)

\* C2 as stated: calcChecksum(buffer, length) returns 0 when length is 0 and
\* otherwise the complement of the 8-bit sum of buffer[0..length-2].
C2_ZeroLengthGivesZero ==
  last.op = "calcChecksum" =>
    ret = IF last.arg.length = 0 THEN 0
          ELSE Complement(ByteSum(last.arg.state, last.arg.length - 2))

\* C2 amended: calcChecksum(buffer, length) returns 0xFF, the complement of
\* the empty sum, when length is 0; for every length >= 1 it returns the
\* complement of the 8-bit sum of buffer[0..length-2].
C2_CalcChecksum ==
  last.op = "calcChecksum" =>
    ret = IF last.arg.length = 0 THEN 255
          ELSE Complement(ByteSum(last.arg.state, last.arg.length - 2))

C2_Witness ==
  /\ last.op = "calcChecksum"
  /\ last.arg.length = 0
  /\ ret = 255

\* Whether the pulse engine matched in the last decodeVoltas call.
Matched == matchGeneric(NoResults.state, last.capture, last.nbits).ok

\* C3: in strict mode decodeVoltas returns true only if nbits is 80, the
\* pulse engine matched and byte 9 of the decoded bytes is the complement of
\* the 8-bit sum of bytes 0..8; in non-strict mode it returns true exactly
\* when the pulse engine matched; on every true return decode_type is VOLTAS
\* and bits is nbits.
C3_DecodeAccepts ==
  last.op = "decodeVoltas" =>
    /\ (last.strict /\ ret) =>
         /\ last.nbits = 80
         /\ Matched
         /\ results.state[9] = Complement(ByteSum(results.state, 8))
    /\ ~last.strict => (ret <=> Matched)
    /\ ret => (results.decode_type = "VOLTAS" /\ results.bits = last.nbits)

C3_Witness ==
  /\ last.op = "decodeVoltas"
  /\ last.strict
  /\ ret
  /\ results.state[8] = 0
  /\ results.state[9] = 64

\* C4 as stated: whenever decodeVoltas returns false, the caller's
\* decode_results (state bytes, decode_type, bits) is as before the call.
C4_RejectLeavesResults ==
  (last.op = "decodeVoltas" /\ ~ret) => results = last.results

\* C4 amended: whenever decodeVoltas returns false, decode_type and bits are
\* as before the call, and after a strict bit-count mismatch so are the state
\* bytes; after a pulse mismatch or a strict checksum failure the state bytes
\* may hold the bytes the pulse engine decoded.
C4_RejectLeavesTypeAndBits ==
  (last.op = "decodeVoltas" /\ ~ret) =>
    /\ results.decode_type = last.results.decode_type
    /\ results.bits = last.results.bits
    /\ (last.strict /\ last.nbits # 80) => results.state = last.results.state

\* A strict decode rejected for its checksum, after an accepted one.
C4_Witness ==
  /\ last.op = "decodeVoltas"
  /\ ~ret
  /\ last.strict
  /\ last.nbits = 80
  /\ results.state[9] = 65
  /\ last.results.state[9] # 65
  /\ results.decode_type = "VOLTAS"
  /\ results.bits = 72

\* The bit-fields a call may write; stateReset and setRaw write all of them.
Written(op) ==
  CASE op = "setPower" -> {"Power"}
    [] op = "setMode"  -> {"Mode"}
    [] op = "setTemp"  -> {"Temp"}
    [] op = "setFan"   -> {"FanSpeed"}
    [] op = "setWifi"  -> {"Wifi"}
    [] op = "setTurbo" -> {"Turbo"}
    [] op = "setEcono" -> {"Econo"}
    [] op = "setLight" -> {"Light"}
    [] op \in GetOps   -> {"Checksum"}
    [] op = "toCommon" -> {}
    [] OTHER           -> Fields

\* C5: every field setter changes only the bits of its own field: all other
\* bit-fields of the 10 bytes, the unnamed ones, the timer fields and the
\* checksum byte included, keep their value.  Only stateReset and setRaw
\* write outside a single field.
C5_SettersFrame ==
  [][\A f \in Fields \ Written(last'.op) :
       GetField(raw', f) = GetField(raw, f)]_vars

\* setTemp(0) on a state with every bit set.
C5_Witness ==
  /\ last.op = "setTemp"
  /\ last.arg = 0
  /\ raw = [i \in 0..9 |-> IF i = 3 THEN 240 ELSE 255]

\* C6: after setTemp(v), for every v in 0..255, getTemp() returns v clamped
\* to [MinTemp, MaxTemp], and the stored Temp field is that value minus
\* MinTemp, which lies in 0..MaxTemp-MinTemp and fits in 4 bits.
C6_SetTempClamps ==
  last.op = "setTemp" =>
    LET v       == last.arg
        clamped == IF v < kVoltasMinTemp THEN kVoltasMinTemp
                   ELSE IF v > kVoltasMaxTemp THEN kVoltasMaxTemp ELSE v
    IN  /\ getTemp(raw) = clamped
        /\ GetField(raw, "Temp") = clamped - kVoltasMinTemp
        /\ GetField(raw, "Temp") \in 0..(kVoltasMaxTemp - kVoltasMinTemp)
        /\ kVoltasMaxTemp - kVoltasMinTemp < 16

\* setTemp(255) on a state loaded by setRaw with every bit set.
C6_Witness ==
  /\ last.op = "setTemp"
  /\ last.arg = 255
  /\ getTemp(raw) = kVoltasMaxTemp
  /\ raw[0] = 255

C8_ToCommonFunctionOfState ==
  (last.op = "toCommon" /\ prior.op = "toCommon") => ret = prior.ret

\* C9: getRaw() called again with no mutation since the last getRaw() returns
\* the same 10 bytes, and called with no mutation since stateReset() it
\* returns bytes 0..8 zero and byte 9 0xFF, on every call.
C9_GetRawIdempotent ==
  [][last'.op \in GetOps =>
       /\ gets >= 1 => ret' = raw
       /\ fresh => ret' = [i \in 0..9 |-> IF i = 9 THEN 255 ELSE 0]
    ]_vars

\* stateReset(), getRaw(), getRaw().
C9_Witness ==
  /\ last.op = "getRaw"
  /\ gets = 2
  /\ fresh
  /\ ret[9] = 255

\* C10: convertFan maps Min and Low to Low, Medium to Med, High and Max to
\* High, anything else to Auto; toCommonFanSpeed maps High to Max, Med to
\* Medium, Low to Min, anything else to Auto.  convertFan undoes
\* toCommonFanSpeed on the four native values, and toCommonFanSpeed undoes
\* convertFan exactly on Min, Medium, Max and Auto.
C10_FanMappings ==
  /\ last.op = "convertFan" =>
       /\ ret = IF last.arg \in {"kMin", "kLow"} THEN kVoltasFanLow
                ELSE IF last.arg = "kMedium" THEN kVoltasFanMed
                ELSE IF last.arg \in {"kHigh", "kMax"} THEN kVoltasFanHigh
                ELSE kVoltasFanAuto
       /\ toCommonFanSpeed(ret) = last.arg
            <=> last.arg \in {"kMin", "kMedium", "kMax", "kAuto"}
  /\ last.op = "toCommonFanSpeed" =>
       /\ ret = IF last.arg = kVoltasFanHigh THEN "kMax"
                ELSE IF last.arg = kVoltasFanMed THEN "kMedium"
                ELSE IF last.arg = kVoltasFanLow THEN "kMin"
                ELSE "kAuto"
       /\ last.arg \in {kVoltasFanLow, kVoltasFanMed, kVoltasFanHigh,
                        kVoltasFanAuto}
            => convertFan(ret) = last.arg

\* convertFan(kLow), which toCommonFanSpeed does not map back to kLow.
C10_Witness ==
  /\ last.op = "convertFan"
  /\ last.arg = "kLow"
  /\ ret = kVoltasFanLow
  /\ toCommonFanSpeed(ret) = "kMin"

=============================================================================
